---- MODULE Spec2Model ----
(***************************************************************************)
(* Refrigerator Chef: the main screen (src/App.tsx) and the recipe service *)
(* client (src/services/geminiService.ts) as a state machine.              *)
(*                                                                         *)
(* An await of the source is a step boundary: a handler runs up to its     *)
(* next await in one action, and the continuation after the awaited        *)
(* promise settles is another action.  The one exception is a service call *)
(* that returns before it reaches the backend (the missing-credential      *)
(* exits): its promise is settled when the caller awaits it, the caller    *)
(* resumes in the same task, and the call is part of the caller's step.    *)
(* The module is ASCII only, so the Korean user-facing messages are given  *)
(* in English and the lone UTF-16 surrogate code unit is written as the    *)
(* character LoneSurrogate.                                                *)
(***************************************************************************)
EXTENDS Integers, Sequences, FiniteSets, TLC

(***************************************************************************)
(* Bounds of the model.                                                    *)
(***************************************************************************)
MaxRecipes == 3        \* longest recipes array the text backend returns
MaxIngredients == 1    \* longest ingredient list the user builds in Spec
MaxTests == 1          \* connectivity tests in flight at once in Spec
MaxPickers == 1        \* key-picker invocations in flight at once
MaxKeyTests == 2       \* connectivity tests in flight at once in KeySpec
MaxList == 3           \* longest ingredient list the user builds in ListSpec

(***************************************************************************)
(* Values.                                                                 *)
(***************************************************************************)
Null == "null"
UNKNOWN == "null"      \* hasApiKey === null
PRESENT == "true"      \* hasApiKey === true
ABSENT == "false"      \* hasApiKey === false

MealTimes == {"BREAKFAST", "LUNCH", "DINNER"}

\* setError(...) texts of src/App.tsx
MsgNoIngredients == "Please enter at least one ingredient!"
MsgInvalidKey == "Invalid API key. Please set it up again."
MsgGenerateFailed == "An error occurred while generating recipes. Please try again later."
MsgTestFailed == "API connection failed. Check that you selected a valid API key."

\* new Error(...) texts of src/services/geminiService.ts
\* the mutation of ErrNoKey that words the message in English
ErrNoKeyEnglish == "API key is not set. Please connect a key in the app settings."
ErrNoKey == "API ki-ga seoljeongdoeji anhatseumnida. Aep seoljeong-eseo ki-reul yeongyeolhae juseyo."
ErrEmptyResponse == "AI eungdab-i bieoitseumnida."

\* process.env.API_KEY
EnvKeys == {"", "undefined", "AIzaSyKey"}

(***************************************************************************)
(* Strings.                                                                *)
(***************************************************************************)
\* String.prototype.includes
Includes(s, sub) ==
  \E i \in 0..(Len(s) - Len(sub)) : SubSeq(s, i + 1, i + Len(sub)) = sub

RECURSIVE TrimStart(_)
TrimStart(s) ==
  IF Len(s) > 0 /\ SubSeq(s, 1, 1) = " " THEN TrimStart(SubSeq(s, 2, Len(s))) ELSE s

RECURSIVE TrimEnd(_)
TrimEnd(s) ==
  IF Len(s) > 0 /\ SubSeq(s, Len(s), Len(s)) = " "
  THEN TrimEnd(SubSeq(s, 1, Len(s) - 1)) ELSE s

\* String.prototype.trim
Trim(s) == TrimEnd(TrimStart(s))

\* a UTF-16 code unit in D800..DFFF with no partner
LoneSurrogate == "#"

\* the characters encodeURIComponent leaves alone
Unreserved ==
  { "a", "b", "c", "d", "e", "f", "g", "h", "i", "j", "k", "l", "m",
    "n", "o", "p", "q", "r", "s", "t", "u", "v", "w", "x", "y", "z",
    "0", "1", "2", "3", "4", "5", "6", "7", "8", "9",
    "-", "_", ".", "!", "~", "*", "'", "(", ")" }

EncodeChar(c) ==
  IF c \in Unreserved THEN c
  ELSE IF c = " " THEN "%20"
  ELSE IF c = "/" THEN "%2F"
  ELSE IF c = "&" THEN "%26"
  ELSE "%3F"

RECURSIVE EncodeFrom(_, _)
EncodeFrom(s, i) ==
  IF i > Len(s) THEN ""
  ELSE EncodeChar(SubSeq(s, i, i)) \o EncodeFrom(s, i + 1)

\* encodeURIComponent: throws URIError on a lone surrogate
encodeURIComponent(s) ==
  IF Includes(s, LoneSurrogate)
  THEN [ok |-> FALSE, message |-> "URI malformed"]
  ELSE [ok |-> TRUE, value |-> EncodeFrom(s, 1)]

(***************************************************************************)
(* The recipe service client.  A call's result is [ok |-> TRUE, value] for *)
(* a resolved promise and [ok |-> FALSE, message] for a rejected one.      *)
(***************************************************************************)
\* !apiKey || apiKey === "undefined", negated
KeyUsable(apiKey) == apiKey # "" /\ apiKey # "undefined"

getDefaultImage(title) ==
  LET e == encodeURIComponent(title) IN
  IF e.ok
  THEN [ok |-> TRUE, value |-> "https://picsum.photos/seed/" \o e.value \o "/600/600"]
  ELSE e

\* what the image backend does with one request
ImageOutcomes ==
  { [kind |-> "inline", data |-> "iVBORw0KGgo"],
    [kind |-> "noimage", data |-> ""],
    [kind |-> "error", data |-> ""] }

\* generateRecipeImage after ai.models.generateContent settled with outcome o
generateRecipeImageSettled(recipeTitle, o) ==
  IF o.kind = "inline"
  THEN [ok |-> TRUE, value |-> "data:image/png;base64," \o o.data]
  ELSE getDefaultImage(recipeTitle)

generateRecipeImage(recipeTitle, apiKey, o) ==
  IF ~KeyUsable(apiKey) THEN getDefaultImage(recipeTitle)
  ELSE generateRecipeImageSettled(recipeTitle, o)

\* the records the response schema admits: four required fields, any content
Recipe(t, d, i, s) == [title |-> t, description |-> d, ingredients |-> i, steps |-> s]

Titles == << "kimchi stew", "egg roll", "onion&egg rice", "tofu soup", "bibimbap" >>

\* a well-formed record
Dish(i) == Recipe(Titles[i], "a dish", <<"egg", "salt">>, <<"chop", "fry">>)

\* a record with every field empty, and one whose title ends in a lone
\* surrogate
EmptyRecipe == Recipe("", "", <<>>, <<>>)
SurrogateRecipe == Recipe("egg" \o LoneSurrogate, "a dish", <<"egg">>, <<"boil">>)

\* the recipes arrays the text backend returns: the first n dishes, and the
\* longest of these with its first two records replaced
RecipeLists ==
  { [i \in 1..n |-> Dish(i)] : n \in 0..MaxRecipes }
  \cup { [i \in 1..MaxRecipes |->
            IF i = 1 THEN EmptyRecipe ELSE IF i = 2 THEN SurrogateRecipe ELSE Dish(i)] }

\* response.text: raw is the text, json says whether JSON.parse accepts it,
\* data is what it parses to
ResponseTexts ==
  { [raw |-> "", json |-> FALSE, data |-> <<>>],
    [raw |-> "  ", json |-> FALSE, data |-> <<>>],
    [raw |-> "Sorry, I cannot help", json |-> FALSE, data |-> <<>>] }
  \cup { [raw |-> "{recipes}", json |-> TRUE, data |-> l] : l \in RecipeLists }

BackendErrorMessages ==
  { "Requested entity was not found",
    "API key not valid. Please pass a valid API key.",
    "got status: 401 Unauthorized",
    "got status: 403 Forbidden",
    "got status: 503 Service Unavailable",
    "fetch failed" }

\* what the text backend does with one request
TextOutcomes ==
  { [kind |-> "error", message |-> m, text |-> [raw |-> "", json |-> FALSE, data |-> <<>>]] :
      m \in BackendErrorMessages }
  \cup { [kind |-> "response", message |-> "", text |-> t] : t \in ResponseTexts }

\* the mutation of JSONparse that answers a value for any text
JSONparseLenient(text) == [ok |-> TRUE, value |-> text.data]

\* JSON.parse(text.trim())
JSONparse(text) ==
  LET t == Trim(text.raw) IN
  IF text.json THEN [ok |-> TRUE, value |-> text.data]
  ELSE IF t = "" THEN [ok |-> FALSE, message |-> "Unexpected end of JSON input"]
  ELSE [ok |-> FALSE,
        message |-> "Unexpected token '" \o SubSeq(t, 1, 1) \o "' is not valid JSON"]

\* fetchRecipes after ai.models.generateContent settled with outcome o
fetchRecipesSettled(o) ==
  IF o.kind = "error" THEN [ok |-> FALSE, message |-> o.message]
  ELSE IF o.text.raw = "" THEN [ok |-> FALSE, message |-> ErrEmptyResponse]
  ELSE JSONparse(o.text)

fetchRecipes(apiKey, o) ==
  IF ~KeyUsable(apiKey) THEN [ok |-> FALSE, message |-> ErrNoKey]
  ELSE fetchRecipesSettled(o)

\* testConnection after ai.models.generateContent settled
TestOutcomes == {"text", "empty", "error"}
\* the mutation of testConnectionSettled that takes any response for success
testConnectionSettledAny(o) == o # "error"
\* return !!response.text, and false from the catch
testConnectionSettled(o) == o = "text"
testConnection(apiKey, o) == KeyUsable(apiKey) /\ testConnectionSettled(o)

(***************************************************************************)
(* The main screen.                                                        *)
(***************************************************************************)
VARIABLES
  ingredients,      \* useState<string[]>([])
  mealTime,         \* useState<MealTime>(MealTime.BREAKFAST)
  recipes,          \* useState<Recipe[]>([])
  isLoading,        \* useState(false)
  error,            \* useState<string | null>(null)
  hasApiKey,        \* useState<boolean | null>(null)
  showSettings,     \* useState(false)
  isTestingKey,     \* useState(false)
  testResult,       \* useState<'success' | 'fail' | null>(null)
  apiKey,           \* process.env.API_KEY
  aistudio,         \* whether window.aistudio is defined
  probe,            \* position of checkInitialKey
  pickers,          \* window.aistudio.openSelectKey() promises not yet settled
  tests,            \* testConnection() backend requests not yet settled
  genPc,            \* position of handleGenerate
  req,              \* the arguments of the fetchRecipes call in flight
  suggestedRecipes, \* const suggestedRecipes of handleGenerate
  images,           \* the generateRecipeImage promises of the map, by index
  caught,           \* err.message of the last catch of handleGenerate
  reply,            \* what the text backend answered to the last fetchRecipes
  calls,            \* the backend requests made since handleGenerate was
                    \* last called: for recipes and for images
  lastCall          \* the handler the user invoked in the last step, or the
                    \* call the last step returned from where a
                    \* specification keeps it; "" otherwise

vars == << ingredients, mealTime, recipes, isLoading, error, hasApiKey,
           showSettings, isTestingKey, testResult, apiKey, aistudio, probe,
           pickers, tests, genPc, req, suggestedRecipes, images, caught,
           reply, calls, lastCall >>

uiVars == << ingredients, mealTime, showSettings >>
keyVars == << apiKey, aistudio, probe, pickers >>
testVars == << isTestingKey, testResult, tests >>
genVars == << genPc, req, suggestedRecipes, images, caught, reply, calls >>

NoReply == [kind |-> "none", message |-> "",
            text |-> [raw |-> "", json |-> FALSE, data |-> <<>>]]
NoRequest == [called |-> FALSE, ingredients |-> <<>>, mealTime |-> "BREAKFAST"]
NoCalls == [fetch |-> 0, image |-> 0]
Pending == [st |-> "pending", value |-> ""]
Promise(r) == IF r.ok THEN [st |-> "ok", value |-> r.value]
              ELSE [st |-> "rejected", value |-> r.message]

Init ==
  /\ ingredients = <<>>
  /\ mealTime = "BREAKFAST"
  /\ recipes = <<>>
  /\ isLoading = FALSE
  /\ error = Null
  /\ hasApiKey = UNKNOWN
  /\ showSettings = FALSE
  /\ isTestingKey = FALSE
  /\ testResult = Null
  /\ apiKey \in EnvKeys
  /\ aistudio \in BOOLEAN
  /\ probe = "start"
  /\ pickers = 0
  /\ tests = 0
  /\ genPc = "idle"
  /\ req = NoRequest
  /\ suggestedRecipes = <<>>
  /\ images = <<>>
  /\ caught = Null
  /\ reply = NoReply
  /\ calls = NoCalls
  /\ lastCall = ""

(***************************************************************************)
(* What the screen renders.                                                *)
(***************************************************************************)
\* if (hasApiKey === false) return the blocking modal
GateShown == hasApiKey = ABSENT
\* {showSettings && ...} of the normal screen
SettingsBarShown == ~GateShown /\ showSettings
\* the mutation of PanelShown that renders no credential gate
PanelShownUngated == hasApiKey # UNKNOWN
\* hasApiKey === null renders the spinner, otherwise the input panel
PanelShown == ~GateShown /\ hasApiKey # UNKNOWN
\* the mutation of Selected that keeps the default option highlighted
SelectedOrDefault(opt) == mealTime = opt \/ opt = "BREAKFAST"
\* selected === opt.value of MealTimeSelector, selected being mealTime
Selected(opt) == mealTime = opt
\* the mutation of GenerateDisabled that does not look at isLoading
GenerateDisabledWhenEmpty == Len(ingredients) = 0
\* disabled={isLoading || ingredients.length === 0}
GenerateDisabled == isLoading \/ Len(ingredients) = 0

(***************************************************************************)
(* Startup probe.                                                          *)
(***************************************************************************)
\* the mutation of EnvKeyState that takes any non-empty text for a credential
EnvKeyStateLax == IF apiKey # "" THEN PRESENT ELSE ABSENT

\* !!process.env.API_KEY && process.env.API_KEY !== "undefined"
EnvKeyState == IF KeyUsable(apiKey) THEN PRESENT ELSE ABSENT

CheckInitialKey ==
  /\ lastCall' = ""
  /\ probe = "start"
  /\ IF aistudio
     THEN /\ probe' = "await"
          /\ UNCHANGED hasApiKey
     ELSE /\ probe' = "done"
          /\ hasApiKey' = EnvKeyState
  /\ UNCHANGED << uiVars, recipes, isLoading, error, apiKey, aistudio, pickers,
                  testVars, genVars >>

\* checkInitialKey after await window.aistudio.hasSelectedApiKey(); call is
\* what the step leaves in lastCall
CheckInitialKeySettledAs(hasKey, call) ==
  /\ lastCall' = call
  /\ probe = "await"
  /\ probe' = "done"
  /\ hasApiKey' = IF hasKey THEN PRESENT ELSE EnvKeyState
  /\ UNCHANGED << uiVars, recipes, isLoading, error, apiKey, aistudio, pickers,
                  testVars, genVars >>

CheckInitialKeySettled(hasKey) == CheckInitialKeySettledAs(hasKey, "")

(***************************************************************************)
(* Settings, meal time, ingredients.                                       *)
(***************************************************************************)
ToggleSettings ==
  /\ lastCall' = ""
  /\ probe # "start"
  /\ ~GateShown
  /\ showSettings' = ~showSettings
  /\ UNCHANGED << ingredients, mealTime, recipes, isLoading, error, hasApiKey,
                  keyVars, testVars, genVars >>

setMealTime(time) ==
  /\ lastCall' = ""
  /\ PanelShown
  /\ mealTime' = time
  /\ UNCHANGED << ingredients, showSettings, recipes, isLoading, error,
                  hasApiKey, keyVars, testVars, genVars >>

InputTexts == {"", "  ", " egg "}

\* the mutation of handleAddIngredient that puts the item in front
handleAddIngredientFront(prev, item) == <<item>> \o prev

\* setIngredients((prev) => [...prev, item])
handleAddIngredient(prev, item) == Append(prev, item)

\* IngredientInput.handleAdd with inputValue typed by the user
handleAddAs(inputValue, call) ==
  /\ lastCall' = call
  /\ PanelShown
  /\ ingredients' = IF Trim(inputValue) # ""
                    THEN handleAddIngredient(ingredients, Trim(inputValue))
                    ELSE ingredients
  /\ UNCHANGED << mealTime, showSettings, recipes, isLoading, error,
                  hasApiKey, keyVars, testVars, genVars >>

handleAdd(inputValue) ==
  /\ Len(ingredients) < MaxIngredients
  /\ handleAddAs(inputValue, "")

\* the mutation of FilterFrom that counts the positions from 1
RECURSIVE FilterFromOneBased(_, _, _)
FilterFromOneBased(prev, index, i) ==
  IF i >= Len(prev) THEN <<>>
  ELSE (IF i + 1 # index THEN <<prev[i + 1]>> ELSE <<>>)
       \o FilterFromOneBased(prev, index, i + 1)

\* prev.filter((_, i) => i !== index), indices from 0
RECURSIVE FilterFrom(_, _, _)
FilterFrom(prev, index, i) ==
  IF i >= Len(prev) THEN <<>>
  ELSE (IF i # index THEN <<prev[i + 1]>> ELSE <<>>) \o FilterFrom(prev, index, i + 1)

handleRemoveIngredientAs(index, call) ==
  /\ lastCall' = call
  /\ PanelShown
  /\ ingredients' = FilterFrom(ingredients, index, 0)
  /\ UNCHANGED << mealTime, showSettings, recipes, isLoading, error,
                  hasApiKey, keyVars, testVars, genVars >>

handleRemoveIngredient(index) == handleRemoveIngredientAs(index, "")

(***************************************************************************)
(* Key selection and the connectivity test.                                *)
(***************************************************************************)
\* handleTestConnection from its first line: testConnection() either
\* returns false at once for want of a credential, and the handler runs to
\* its end, or calls the backend, and the handler waits
StartTest(key, errorBefore) ==
  IF KeyUsable(key)
  THEN /\ isTestingKey' = TRUE
       /\ testResult' = Null
       /\ tests' = tests + 1
       /\ error' = errorBefore
  ELSE /\ isTestingKey' = FALSE
       /\ testResult' = "fail"
       /\ tests' = tests
       /\ error' = MsgTestFailed

handleTestConnectionAs(call) ==
  /\ lastCall' = call
  /\ SettingsBarShown
  /\ ~isTestingKey
  /\ StartTest(apiKey, error)
  /\ UNCHANGED << uiVars, recipes, isLoading, hasApiKey, keyVars, genVars >>

handleTestConnection == handleTestConnectionAs("")

\* the mutation of handleTestConnectionSettledAs that closes the credential
\* gate when the test fails
handleTestConnectionClosingAs(o, call) ==
  /\ lastCall' = call
  /\ tests > 0
  /\ tests' = tests - 1
  /\ testResult' = IF testConnectionSettled(o) THEN "success" ELSE "fail"
  /\ error' = IF testConnectionSettled(o) THEN Null ELSE MsgTestFailed
  /\ hasApiKey' = IF testConnectionSettled(o) THEN hasApiKey ELSE ABSENT
  /\ isTestingKey' = FALSE
  /\ UNCHANGED << uiVars, recipes, isLoading, keyVars, genVars >>

\* handleTestConnection after await testConnection()
handleTestConnectionSettledAs(o, call) ==
  /\ lastCall' = call
  /\ tests > 0
  /\ tests' = tests - 1
  /\ testResult' = IF testConnectionSettled(o) THEN "success" ELSE "fail"
  /\ error' = IF testConnectionSettled(o) THEN Null ELSE MsgTestFailed
  /\ isTestingKey' = FALSE
  /\ UNCHANGED << uiVars, recipes, isLoading, hasApiKey, keyVars, genVars >>

handleTestConnectionSettled(o) == handleTestConnectionSettledAs(o, "")

\* handleOpenKeySelection up to await window.aistudio.openSelectKey()
handleOpenKeySelection ==
  /\ lastCall' = "handleOpenKeySelection"
  /\ probe # "start"
  /\ GateShown \/ SettingsBarShown
  /\ IF aistudio
     THEN /\ pickers < MaxPickers
          /\ pickers' = pickers + 1
     ELSE UNCHANGED pickers
  /\ UNCHANGED << uiVars, recipes, isLoading, error, hasApiKey, apiKey,
                  aistudio, probe, testVars, genVars >>

\* the mutation of KeyAfterPicker that looks at the credential the picker left
KeyAfterPickerVerified(newKey) == IF KeyUsable(newKey) THEN PRESENT ELSE ABSENT

\* setHasApiKey(true) after await window.aistudio.openSelectKey()
KeyAfterPicker(newKey) == PRESENT

\* handleOpenKeySelection after the picker resolved; the picker may have
\* injected a credential into process.env.API_KEY
handleOpenKeySelectionResolvedAs(newKey, call) ==
  /\ lastCall' = call
  /\ pickers > 0
  /\ pickers' = pickers - 1
  /\ apiKey' = newKey
  /\ hasApiKey' = KeyAfterPicker(newKey)
  /\ StartTest(newKey, Null)
  /\ UNCHANGED << uiVars, recipes, isLoading, aistudio, probe, genVars >>

handleOpenKeySelectionResolved(newKey) ==
  handleOpenKeySelectionResolvedAs(newKey, "")

\* handleOpenKeySelection after the picker rejected: catch, console.error
handleOpenKeySelectionRejectedAs(call) ==
  /\ lastCall' = call
  /\ pickers > 0
  /\ pickers' = pickers - 1
  /\ UNCHANGED << uiVars, recipes, isLoading, error, hasApiKey, apiKey,
                  aistudio, probe, testVars, genVars >>

handleOpenKeySelectionRejected == handleOpenKeySelectionRejectedAs("")

(***************************************************************************)
(* Recipe generation.                                                      *)
(***************************************************************************)
\* the mutation of IsCredentialError that looks for "API key" only
IsCredentialErrorKeyOnly(message) == Includes(message, "API key")

\* the mutation of IsCredentialError that takes any mention of the API for
\* a credential error
IsCredentialErrorLoose(message) ==
  Includes(message, "not found") \/ Includes(message, "API")

\* err.message?.includes("not found") || err.message?.includes("API key")
IsCredentialError(message) ==
  Includes(message, "not found") \/ Includes(message, "API key")

\* the mutation of HandleGenerateCatch that has no finally block
HandleGenerateCatchOnly(message) ==
  /\ caught' = message
  /\ IF IsCredentialError(message)
     THEN /\ hasApiKey' = ABSENT
          /\ error' = MsgInvalidKey
     ELSE /\ error' = MsgGenerateFailed
          /\ UNCHANGED hasApiKey
  /\ isLoading' = isLoading
  /\ genPc' = "idle"
  /\ req' = NoRequest
  /\ suggestedRecipes' = <<>>
  /\ images' = <<>>

\* the catch and finally blocks of handleGenerate
HandleGenerateCatch(message) ==
  /\ caught' = message
  /\ IF IsCredentialError(message)
     THEN /\ hasApiKey' = ABSENT
          /\ error' = MsgInvalidKey
     ELSE /\ error' = MsgGenerateFailed
          /\ UNCHANGED hasApiKey
  /\ isLoading' = FALSE
  /\ genPc' = "idle"
  /\ req' = NoRequest
  /\ suggestedRecipes' = <<>>
  /\ images' = <<>>

\* the mutation of NoIngredients that drops the check
NoIngredientsUnchecked(list) == FALSE

\* if (ingredients.length === 0)
NoIngredients(list) == Len(list) = 0

\* the mutation of Request that takes the meal time of the first render
RequestStale(list, time) ==
  [called |-> TRUE, ingredients |-> list, mealTime |-> "BREAKFAST"]

\* the arguments of fetchRecipes(ingredients, mealTime): the state of the
\* render in which handleGenerate was called
Request(list, time) == [called |-> TRUE, ingredients |-> list, mealTime |-> time]

\* the mutation of handleGenerate that leaves the recipes of the request
\* before on the screen
handleGenerateKeeping ==
  /\ lastCall' = "handleGenerate"
  /\ IF NoIngredients(ingredients)
     THEN /\ error' = MsgNoIngredients
          /\ UNCHANGED << uiVars, recipes, isLoading, hasApiKey, keyVars,
                          testVars, genVars >>
     ELSE /\ recipes' = recipes
          /\ reply' = NoReply
          /\ IF KeyUsable(apiKey)
             THEN /\ isLoading' = TRUE
                  /\ error' = Null
                  /\ genPc' = "awaitFetch"
                  /\ req' = Request(ingredients, mealTime)
                  /\ caught' = Null
                  /\ calls' = [NoCalls EXCEPT !.fetch = 1]
                  /\ UNCHANGED << hasApiKey, suggestedRecipes, images >>
             ELSE /\ HandleGenerateCatch(ErrNoKey)
                  /\ calls' = NoCalls
          /\ UNCHANGED << uiVars, keyVars, testVars >>

\* handleGenerate up to await fetchRecipes(ingredients, mealTime); when
\* fetchRecipes throws for want of a credential, on to the end of the handler
handleGenerate ==
  /\ lastCall' = "handleGenerate"
  /\ IF NoIngredients(ingredients)
     THEN /\ error' = MsgNoIngredients
          /\ UNCHANGED << uiVars, recipes, isLoading, hasApiKey, keyVars,
                          testVars, genVars >>
     ELSE /\ recipes' = <<>>
          /\ reply' = NoReply
          /\ IF KeyUsable(apiKey)
             THEN /\ isLoading' = TRUE
                  /\ error' = Null
                  /\ genPc' = "awaitFetch"
                  /\ req' = Request(ingredients, mealTime)
                  /\ caught' = Null
                  /\ calls' = [NoCalls EXCEPT !.fetch = 1]
                  /\ UNCHANGED << hasApiKey, suggestedRecipes, images >>
             ELSE /\ HandleGenerateCatch(ErrNoKey)
                  /\ calls' = NoCalls
          /\ UNCHANGED << uiVars, keyVars, testVars >>

\* a click on the generate button
ClickGenerate ==
  /\ PanelShown
  /\ ~GenerateDisabled
  /\ handleGenerate

\* handleGenerate called although the button is disabled for want of
\* ingredients: the case the handler's own check is there for
CallGenerateEmpty ==
  /\ PanelShown
  /\ ~isLoading
  /\ Len(ingredients) = 0
  /\ handleGenerate

\* the mutation of Revealed that shows nothing before the images are in
RevealedNothing(list) == <<>>

\* setRecipes(suggestedRecipes)
Revealed(list) == list

\* the promises of imgs that wait for the image backend
InFlight(imgs) == { i \in DOMAIN imgs : imgs[i].st = "pending" }

\* suggestedRecipes.map(async (recipe) => ...) up to the awaits
StartImages(list, key) ==
  [i \in 1..Len(list) |->
     IF KeyUsable(key) THEN Pending ELSE Promise(getDefaultImage(list[i].title))]

\* the mutation of handleGenerateAfterFetch that sends the request a second
\* time when the first one failed
handleGenerateAfterFetchRetry(o) ==
  /\ lastCall' = ""
  /\ genPc = "awaitFetch"
  /\ reply' = o
  /\ LET r == fetchRecipesSettled(o)
     IN IF r.ok
        THEN /\ recipes' = Revealed(r.value)
             /\ suggestedRecipes' = r.value
             /\ images' = StartImages(r.value, apiKey)
             /\ genPc' = "awaitImages"
             /\ req' = NoRequest
             /\ calls' = [calls EXCEPT !.image = Cardinality(InFlight(images'))]
             /\ UNCHANGED << isLoading, error, hasApiKey, caught >>
        ELSE IF calls.fetch < 2
        THEN /\ calls' = [calls EXCEPT !.fetch = calls.fetch + 1]
             /\ UNCHANGED << recipes, suggestedRecipes, images, genPc, req,
                             isLoading, error, hasApiKey, caught >>
        ELSE /\ HandleGenerateCatch(r.message)
             /\ UNCHANGED << recipes, calls >>
  /\ UNCHANGED << uiVars, keyVars, testVars >>

\* handleGenerate after await fetchRecipes(...)
handleGenerateAfterFetch(o) ==
  /\ lastCall' = ""
  /\ genPc = "awaitFetch"
  /\ reply' = o
  /\ LET r == fetchRecipesSettled(o)
     IN IF r.ok
        THEN /\ recipes' = Revealed(r.value)
             /\ suggestedRecipes' = r.value
             /\ images' = StartImages(r.value, apiKey)
             /\ genPc' = "awaitImages"
             /\ req' = NoRequest
             /\ calls' = [calls EXCEPT !.image = Cardinality(InFlight(images'))]
             /\ UNCHANGED << isLoading, error, hasApiKey, caught >>
        ELSE /\ HandleGenerateCatch(r.message)
             /\ UNCHANGED << recipes, calls >>
  /\ UNCHANGED << uiVars, keyVars, testVars >>

\* one generateRecipeImage call after its backend request settled
generateRecipeImageDone(i, o) ==
  /\ lastCall' = ""
  /\ genPc = "awaitImages"
  /\ i \in DOMAIN images
  /\ images[i].st = "pending"
  /\ images' = [images EXCEPT
                  ![i] = Promise(generateRecipeImageSettled(suggestedRecipes[i].title, o))]
  /\ UNCHANGED << uiVars, recipes, isLoading, error, hasApiKey, keyVars,
                  testVars, genPc, req, suggestedRecipes, caught, reply,
                  calls >>

\* { ...recipe, imageUrl }
WithImage(recipe, imageUrl) ==
  [title |-> recipe.title, description |-> recipe.description,
   ingredients |-> recipe.ingredients, steps |-> recipe.steps,
   imageUrl |-> imageUrl]

\* the mutation of Joined that hands the images out in reverse order
JoinedReversed(list, imgs) ==
  [i \in DOMAIN imgs |-> WithImage(list[i], imgs[Len(imgs) + 1 - i].value)]

\* what Promise.all(suggestedRecipes.map(...)) resolves to: entry i is
\* recipe i with the value of its own generateRecipeImage promise
Joined(list, imgs) ==
  [i \in DOMAIN imgs |-> WithImage(list[i], imgs[i].value)]

\* handleGenerate after await Promise.all(...)
handleGenerateAfterImages ==
  /\ lastCall' = ""
  /\ genPc = "awaitImages"
  /\ IF \E i \in DOMAIN images : images[i].st = "rejected"
     THEN /\ \E i \in DOMAIN images :
               /\ images[i].st = "rejected"
               /\ HandleGenerateCatch(images[i].value)
          /\ UNCHANGED << recipes, reply, calls >>
     ELSE /\ \A i \in DOMAIN images : images[i].st = "ok"
          /\ recipes' = Joined(suggestedRecipes, images)
          /\ isLoading' = FALSE
          /\ genPc' = "idle"
          /\ suggestedRecipes' = <<>>
          /\ images' = <<>>
          /\ UNCHANGED << error, hasApiKey, req, caught, reply, calls >>
  /\ UNCHANGED << uiVars, keyVars, testVars >>

(***************************************************************************)
(* The specification.                                                      *)
(***************************************************************************)
Next ==
  \/ CheckInitialKey
  \/ \E hasKey \in BOOLEAN : CheckInitialKeySettled(hasKey)
  \/ ToggleSettings
  \/ \E time \in MealTimes : setMealTime(time)
  \/ \E inputValue \in InputTexts : handleAdd(inputValue)
  \/ \E index \in -1..MaxIngredients : handleRemoveIngredient(index)
  \/ tests < MaxTests /\ handleTestConnection
  \/ \E o \in TestOutcomes : handleTestConnectionSettled(o)
  \/ handleOpenKeySelection
  \/ \E newKey \in {apiKey, "AIzaSyKey"} :
       tests < MaxTests /\ handleOpenKeySelectionResolved(newKey)
  \/ handleOpenKeySelectionRejected
  \/ ClickGenerate
  \/ CallGenerateEmpty
  \/ \E o \in TextOutcomes : handleGenerateAfterFetch(o)
  \/ \E i \in 1..(MaxRecipes + 1), o \in ImageOutcomes : generateRecipeImageDone(i, o)
  \/ handleGenerateAfterImages

Spec == Init /\ [][Next]_vars

(***************************************************************************)
(* The screen with backends that answer: every request for recipes and     *)
(* every image request settles, and handleGenerate goes on when the        *)
(* promise it awaits has settled.                                          *)
(***************************************************************************)
LiveSpec ==
  /\ Spec
  /\ WF_vars(\E o \in TextOutcomes : handleGenerateAfterFetch(o))
  /\ WF_vars(\E i \in 1..(MaxRecipes + 1), o \in ImageOutcomes :
               generateRecipeImageDone(i, o))
  /\ WF_vars(handleGenerateAfterImages)

(***************************************************************************)
(* The credential part of the screen alone: the startup probe, the key     *)
(* picker and the connectivity test, each step leaving in lastCall the     *)
(* call it made or returned from and what that call answered.              *)
(***************************************************************************)
hasSelectedApiKeyCall(hasKey) ==
  IF hasKey THEN "hasSelectedApiKey: true" ELSE "hasSelectedApiKey: false"
testConnectionCall(o) == "testConnection: " \o o

KeyNext ==
  \/ CheckInitialKey
  \/ \E hasKey \in BOOLEAN :
       CheckInitialKeySettledAs(hasKey, hasSelectedApiKeyCall(hasKey))
  \/ ToggleSettings
  \/ tests < MaxKeyTests /\ handleTestConnectionAs("handleTestConnection")
  \/ \E o \in TestOutcomes :
       handleTestConnectionSettledAs(o, testConnectionCall(o))
  \/ handleOpenKeySelection
  \/ \E newKey \in {apiKey, "AIzaSyKey"} :
       /\ tests < MaxKeyTests
       /\ handleOpenKeySelectionResolvedAs(newKey, "openSelectKey: resolved")
  \/ handleOpenKeySelectionRejectedAs("openSelectKey: rejected")

KeySpec == Init /\ [][KeyNext]_vars

(***************************************************************************)
(* The ingredient list and the meal time alone, with longer lists and more *)
(* texts than the generation flow needs; handleAdd and                     *)
(* handleRemoveIngredient leave their argument in lastCall.                *)
(***************************************************************************)
ListInputTexts == InputTexts \cup {"egg", "salt ", "oil"}

handleAddCall(inputValue) == "handleAdd: " \o inputValue
handleRemoveIngredientCall(index) == "handleRemoveIngredient: " \o ToString(index)

ListNext ==
  \/ CheckInitialKey
  \/ \E hasKey \in BOOLEAN : CheckInitialKeySettled(hasKey)
  \/ \E time \in MealTimes : setMealTime(time)
  \/ \E inputValue \in ListInputTexts :
       /\ Len(ingredients) < MaxList
       /\ handleAddAs(inputValue, handleAddCall(inputValue))
  \/ \E index \in -1..MaxList :
       handleRemoveIngredientAs(index, handleRemoveIngredientCall(index))

ListSpec == Init /\ [][ListNext]_vars

(***************************************************************************)
(* The three operations of the recipe service called on their own, with    *)
(* the credential of the environment and every answer the backend could    *)
(* give; lastCall names the operation and, for an image, the title.        *)
(***************************************************************************)
ServiceTitles == { Titles[1], Titles[3], SurrogateRecipe.title }

generateRecipeImageCall(title) == "generateRecipeImage: " \o title

\* await fetchRecipes(...), the outcome kept as handleGenerate keeps it
CallFetchRecipes(o) ==
  /\ lastCall' = "fetchRecipes"
  /\ LET r == fetchRecipes(apiKey, o)
     IN /\ suggestedRecipes' = IF r.ok THEN r.value ELSE <<>>
        /\ caught' = IF r.ok THEN Null ELSE r.message
  /\ UNCHANGED << uiVars, recipes, isLoading, error, hasApiKey, keyVars,
                  testVars, genPc, req, images, reply, calls >>

\* generateRecipeImage(title), the promise kept as the map keeps it
CallGenerateRecipeImage(title, o) ==
  /\ lastCall' = generateRecipeImageCall(title)
  /\ images' = << Promise(generateRecipeImage(title, apiKey, o)) >>
  /\ UNCHANGED << uiVars, recipes, isLoading, error, hasApiKey, keyVars,
                  testVars, genPc, req, suggestedRecipes, caught, reply, calls >>

\* await testConnection(), the outcome kept as handleTestConnection keeps it
CallTestConnection(o) ==
  /\ lastCall' = "testConnection"
  /\ testResult' = IF testConnection(apiKey, o) THEN "success" ELSE "fail"
  /\ UNCHANGED << uiVars, recipes, isLoading, error, hasApiKey, keyVars,
                  isTestingKey, tests, genVars >>

ServiceNext ==
  \/ \E o \in TextOutcomes : CallFetchRecipes(o)
  \/ \E title \in ServiceTitles, o \in ImageOutcomes : CallGenerateRecipeImage(title, o)
  \/ \E o \in TestOutcomes : CallTestConnection(o)

ServiceSpec == Init /\ [][ServiceNext]_vars

(***************************************************************************)
(* Claims.                                                                 *)
(***************************************************************************)
\* C1: a handleGenerate call with an empty ingredient list sets the
\* validation message and starts nothing: isLoading stays false, recipes,
\* hasApiKey and the generation state are unchanged; and no fetchRecipes
\* call ever carries an empty ingredient list.
C1_EmptyListRejected ==
  [][ /\ (lastCall' = "handleGenerate" /\ Len(ingredients) = 0) =>
           /\ error' = MsgNoIngredients
           /\ isLoading' = FALSE
           /\ UNCHANGED << recipes, hasApiKey, genPc, req, caught, reply >>
      /\ req'.called => Len(req'.ingredients) > 0 ]_vars

C1_Witness ==
  /\ lastCall = "handleGenerate"
  /\ ingredients = <<>>
  /\ error = MsgNoIngredients
  /\ ~isLoading

\* the four markers of a credential error the specification names
HasMarker(message) ==
  \/ Includes(message, "401")
  \/ Includes(message, "403")
  \/ Includes(message, "not found")
  \/ Includes(message, "API key")

\* the step in which handleGenerate catches a failure of fetchRecipes
FetchFailedStep ==
  /\ \/ genPc = "awaitFetch"
     \/ genPc = "idle" /\ lastCall' = "handleGenerate" /\ ingredients # <<>>
  /\ genPc' = "idle"
  /\ caught' # Null

\* the step in which handleGenerate leaves await Promise.all(...)
ImagesJoinedStep == genPc = "awaitImages" /\ genPc' = "idle"

HasImage(recipe) == "imageUrl" \in DOMAIN recipe

\* C2: every fetchRecipes failure whose message holds "401", "403",
\* "not found" or "API key" closes the credential gate and sets the
\* re-authentication message.
C2_EveryMarkerClosesGate ==
  [][ (FetchFailedStep /\ HasMarker(caught')) =>
        (hasApiKey' = ABSENT /\ error' = MsgInvalidKey) ]_vars

\* C3: when fetchRecipes rejects with "Requested entity was not found",
\* handleGenerate ends with the gate closed, the re-authentication message
\* as the error, no recipes and isLoading false.
C3_NotFoundClosesGate ==
  [][ (FetchFailedStep /\ caught' = "Requested entity was not found") =>
        /\ hasApiKey' = ABSENT
        /\ error' = MsgInvalidKey
        /\ recipes' = <<>>
        /\ isLoading' = FALSE ]_vars

C3_Witness ==
  /\ caught = "Requested entity was not found"
  /\ reply.kind = "error"
  /\ genPc = "idle"
  /\ hasApiKey = ABSENT
  /\ error = MsgInvalidKey

\* C4: when fetchRecipes fails with a message that holds none of the four
\* markers, handleGenerate ends with the generic retry message, hasApiKey
\* as it was, no recipes and isLoading false.
C4_OtherFailureGeneric ==
  [][ (FetchFailedStep /\ ~HasMarker(caught')) =>
        /\ error' = MsgGenerateFailed
        /\ hasApiKey' = hasApiKey
        /\ recipes' = <<>>
        /\ isLoading' = FALSE ]_vars

C4_Witness ==
  /\ caught = "fetch failed"
  /\ genPc = "idle"
  /\ hasApiKey = PRESENT
  /\ error = MsgGenerateFailed
  /\ recipes = <<>>
  /\ ~isLoading

\* the backend answered with no text, or with text JSON.parse refuses
BadBody(r) == r.kind = "response" /\ ~r.text.json

\* C5: when the text backend answers with an empty body or with text that
\* is not JSON, fetchRecipes rejects: handleGenerate goes to its catch, no
\* second request is made and recipes stays empty.
C5_BadBodyRejects ==
  [][ (genPc = "awaitFetch" /\ genPc' # "awaitFetch" /\ BadBody(reply')) =>
        /\ genPc' = "idle"
        /\ caught' # Null
        /\ recipes' = <<>>
        /\ error' = MsgGenerateFailed
        /\ isLoading' = FALSE ]_vars

C5_Witness ==
  /\ BadBody(reply)
  /\ reply.text.raw # ""
  /\ genPc = "idle"
  /\ Includes(caught, "is not valid JSON")
  /\ recipes = <<>>

WellFormed(recipe) ==
  /\ recipe.title # ""
  /\ recipe.description # ""
  /\ recipe.ingredients # <<>>
  /\ recipe.steps # <<>>

\* C6: what fetchRecipes returns for a body that parses is exactly 3
\* records with non-empty title, description, ingredients and steps, and
\* recipes, when not empty, has length 3.
C6_ExactlyThreeWellFormed ==
  /\ genPc = "awaitImages" =>
       /\ Len(suggestedRecipes) = 3
       /\ \A i \in DOMAIN suggestedRecipes : WellFormed(suggestedRecipes[i])
  /\ recipes # <<>> => Len(recipes) = 3

\* C7: no generateRecipeImage promise is ever rejected.
C7_ImageNeverRaises ==
  \A i \in DOMAIN images : images[i].st # "rejected"

IsDataUri(url) == SubSeq(url, 1, 22) = "data:image/png;base64,"
IsPlaceholderFor(url, title) ==
  Includes(url, "/seed/" \o EncodeFrom(title, 1) \o "/600/600")

\* the image request of recipe i came back without an image: the backend
\* threw or answered without an image part
ImageRequestFailed(i) ==
  /\ images[i].st # "pending"
  /\ ~(images[i].st = "ok" /\ IsDataUri(images[i].value))

\* C8: when an image request of the generation failed, handleGenerate
\* still leaves Promise.all without its catch: the error and hasApiKey stay
\* as they were and every recipe of the batch is shown with its own image.
C8_ImageFailureIsolated ==
  [][ (ImagesJoinedStep /\ \E i \in DOMAIN images : ImageRequestFailed(i)) =>
        /\ caught' = Null
        /\ error' = error
        /\ hasApiKey' = hasApiKey
        /\ Len(recipes') = Len(suggestedRecipes)
        /\ \A i \in DOMAIN recipes' :
             HasImage(recipes'[i]) /\ recipes'[i].imageUrl = images[i].value ]_vars

\* C9: when a generation whose fetchRecipes call succeeded is over, recipes
\* holds 3 records and each has an imageUrl that is a data:image/png;base64
\* URI or the placeholder of its own title.
C9_ThreeCardsWithImages ==
  [][ ImagesJoinedStep =>
        /\ Len(recipes') = 3
        /\ \A i \in DOMAIN recipes' :
             /\ HasImage(recipes'[i])
             /\ \/ IsDataUri(recipes'[i].imageUrl)
                \/ IsPlaceholderFor(recipes'[i].imageUrl, recipes'[i].title) ]_vars

\* C10: the step after fetchRecipes succeeded sets recipes to the records
\* without images while isLoading is true and no image promise has been
\* joined; recipes stays that list for as long as the images are awaited,
\* and records with images are set only by the step that leaves
\* await Promise.all(...).
C10_TwoPhaseReveal ==
  [][ /\ (genPc = "awaitFetch" /\ genPc' = "awaitImages") =>
           /\ recipes' = suggestedRecipes'
           /\ \A i \in DOMAIN recipes' : ~HasImage(recipes'[i])
           /\ isLoading'
      /\ genPc' = "awaitImages" => (recipes' = suggestedRecipes' /\ isLoading')
      /\ (recipes' # recipes /\ \E i \in DOMAIN recipes' : HasImage(recipes'[i])) =>
           (ImagesJoinedStep /\ recipes = suggestedRecipes) ]_vars

C10_Witness ==
  /\ genPc = "awaitImages"
  /\ Len(recipes) = 3
  /\ isLoading
  /\ \A i \in DOMAIN recipes : ~HasImage(recipes[i])
  /\ \E i \in DOMAIN images : images[i].st = "pending"
  /\ \E i \in DOMAIN images : images[i].st = "ok"

\* C11: whatever the order in which the image requests complete, each
\* completion fills the promise of its own recipe only, with a data URI or
\* the placeholder of that recipe's title; and the list set after the join
\* has the length and order of the text-only list, record i keeping its
\* title, description, ingredients and steps and carrying the value of
\* promise i.
C11_JoinKeepsOrder ==
  [][ /\ (genPc = "awaitImages" /\ genPc' = "awaitImages") =>
           /\ suggestedRecipes' = suggestedRecipes
           /\ DOMAIN images' = DOMAIN images
           /\ \A i \in DOMAIN images :
                images'[i] # images[i] =>
                  /\ images[i].st = "pending"
                  /\ \A j \in DOMAIN images : j # i => images'[j] = images[j]
                  /\ images'[i].st = "ok" =>
                       \/ IsDataUri(images'[i].value)
                       \/ IsPlaceholderFor(images'[i].value, suggestedRecipes[i].title)
      /\ (ImagesJoinedStep /\ caught' = Null) =>
           /\ Len(recipes') = Len(suggestedRecipes)
           /\ \A i \in DOMAIN recipes' :
                /\ recipes'[i].title = suggestedRecipes[i].title
                /\ recipes'[i].description = suggestedRecipes[i].description
                /\ recipes'[i].ingredients = suggestedRecipes[i].ingredients
                /\ recipes'[i].steps = suggestedRecipes[i].steps
                /\ recipes'[i].imageUrl = images[i].value ]_vars

C11_Witness ==
  /\ genPc = "idle"
  /\ Len(recipes) = 3
  /\ \A i \in DOMAIN recipes : HasImage(recipes[i])
  /\ IsPlaceholderFor(recipes[1].imageUrl, recipes[1].title)
  /\ IsDataUri(recipes[2].imageUrl)
  /\ IsPlaceholderFor(recipes[3].imageUrl, recipes[3].title)

\* C12: hasApiKey is null when the startup probe begins, and the probe sets
\* it to true when the host answered that a key is selected or
\* process.env.API_KEY is neither empty nor the text "undefined", and to
\* false otherwise.
C12_StartupProbe ==
  [][ /\ probe = "start" => hasApiKey = UNKNOWN
      /\ (probe # "done" /\ probe' = "done") =>
           hasApiKey' = IF \/ lastCall' = hasSelectedApiKeyCall(TRUE)
                           \/ (apiKey # "" /\ apiKey # "undefined")
                        THEN PRESENT ELSE ABSENT ]_vars

C12_Witness ==
  /\ probe = "done"
  /\ lastCall = hasSelectedApiKeyCall(FALSE)
  /\ apiKey = "undefined"
  /\ hasApiKey = ABSENT

\* C13: when window.aistudio.openSelectKey() returns, whether or not it
\* left a usable credential, the same step sets hasApiKey to true, drops
\* the error that was shown and starts a connectivity test: the test is in
\* flight with no error shown, or, there being no credential to test, has
\* already failed with its own message.
C13_PickerReturnOpensGate ==
  [][ lastCall' = "openSelectKey: resolved" =>
        /\ hasApiKey' = PRESENT
        /\ \/ /\ isTestingKey'
              /\ tests' = tests + 1
              /\ testResult' = Null
              /\ error' = Null
           \/ /\ ~KeyUsable(apiKey')
              /\ ~isTestingKey'
              /\ testResult' = "fail"
              /\ error' = MsgTestFailed ]_vars

C13_Witness ==
  /\ lastCall = "openSelectKey: resolved"
  /\ apiKey = "undefined"
  /\ hasApiKey = PRESENT
  /\ testResult = "fail"

\* the message an earlier revision of the screen sets when window.aistudio
\* has no key picker
MsgUnsupported == "This environment does not support the system API key picker."

\* C14: handleOpenKeySelection called where the host has no key picker sets
\* the "environment unsupported" message as the error and leaves
\* hasApiKey, recipes and the connectivity test as they were.
C14_NoPickerMessage ==
  [][ (lastCall' = "handleOpenKeySelection" /\ ~aistudio) =>
        /\ error' = MsgUnsupported
        /\ UNCHANGED << hasApiKey, recipes, isTestingKey, testResult, tests >> ]_vars

\* C15: handleAdd with a text whose trimmed form is empty leaves the list
\* as it is; with any other text it appends the trimmed text at the end:
\* the list is one longer, its earlier elements are where they were, and
\* this whether or not the text is in the list already.
C15_AddAppendsTrimmed ==
  [][ \A v \in ListInputTexts :
        lastCall' = handleAddCall(v) =>
          IF Trim(v) = ""
          THEN ingredients' = ingredients
          ELSE /\ Len(ingredients') = Len(ingredients) + 1
               /\ ingredients'[Len(ingredients')] = Trim(v)
               /\ \A i \in DOMAIN ingredients : ingredients'[i] = ingredients[i] ]_vars

C15_Witness ==
  /\ lastCall = handleAddCall(" egg ")
  /\ ingredients = << "salt", "egg", "egg" >>

\* C16: handleRemoveIngredient(index) with 0 <= index < n takes out the
\* element at that position and keeps the others in their order; with an
\* index below 0 or from n on it leaves the list as it is.
C16_RemoveExactlyOne ==
  [][ \A index \in -1..MaxList :
        lastCall' = handleRemoveIngredientCall(index) =>
          IF 0 <= index /\ index < Len(ingredients)
          THEN ingredients' = SubSeq(ingredients, 1, index)
                              \o SubSeq(ingredients, index + 2, Len(ingredients))
          ELSE ingredients' = ingredients ]_vars

C16_Witness ==
  /\ lastCall = handleRemoveIngredientCall(1)
  /\ ingredients = << "egg", "oil" >>

\* a step of handleTestConnection that was not started by the key picker
TestStep ==
  /\ pickers' = pickers
  /\ << isTestingKey, testResult, tests >>' # << isTestingKey, testResult, tests >>

\* C17: a connectivity test, when it starts and when it ends with success
\* or failure, leaves hasApiKey as it is, so the credential gate neither
\* opens nor closes, and leaves the generate button and a generation in
\* progress as they are.
C17_TestLeavesGateAlone ==
  [][ TestStep =>
        /\ hasApiKey' = hasApiKey
        /\ GateShown' = GateShown
        /\ PanelShown' = PanelShown
        /\ GenerateDisabled' = GenerateDisabled
        /\ UNCHANGED << isLoading, genPc, recipes >> ]_vars

C17_Witness ==
  /\ testResult = "fail"
  /\ error = Null
  /\ hasApiKey = PRESENT
  /\ lastCall = "handleGenerate"
  /\ genPc = "awaitFetch"

\* C18: testConnection always resolves, and handleTestConnection records
\* what it resolved to: success with no error shown exactly when the backend
\* answered with text, failure with the test's message when the backend
\* threw, answered without text, or there was no credential to call it with.
C18_TestConnectionResolves ==
  [][ /\ \A o \in TestOutcomes :
           lastCall' = testConnectionCall(o) =>
             IF o = "text"
             THEN testResult' = "success" /\ error' = Null
             ELSE testResult' = "fail" /\ error' = MsgTestFailed
      /\ (lastCall' = "handleTestConnection" /\ (apiKey = "" \/ apiKey = "undefined")) =>
           /\ testResult' = "fail"
           /\ error' = MsgTestFailed
           /\ ~isTestingKey'
           /\ tests' = tests ]_vars

C18_Witness ==
  /\ lastCall = testConnectionCall("empty")
  /\ testResult = "fail"
  /\ error = MsgTestFailed
  /\ ~isTestingKey

\* C19: in every state exactly one of the options BREAKFAST, LUNCH and
\* DINNER is the selected one, and until the screen lets the user choose it
\* is BREAKFAST.
C19_OneMealTime ==
  /\ Cardinality({ opt \in MealTimes : Selected(opt) }) = 1
  /\ probe = "start" => Selected("BREAKFAST")

C19_Witness ==
  /\ Selected("DINNER")
  /\ ~Selected("BREAKFAST")
  /\ ~Selected("LUNCH")
  /\ req.called /\ req.mealTime = "DINNER"

\* C20: between two calls of handleGenerate at most one request for recipes
\* goes to the text backend and at most one image request for each recipe
\* it returned; a request for recipes is only made in a step that calls
\* handleGenerate, image requests only in the step that receives the
\* recipes, and the step that catches a failure makes no request.
C20_NoRetry ==
  [][ /\ calls'.fetch <= 1
      /\ calls'.image <= Len(reply'.text.data)
      /\ Cardinality(InFlight(images')) <= calls'.image
      /\ (calls'.fetch > calls.fetch \/ (req'.called /\ ~req.called)) =>
           lastCall' = "handleGenerate"
      /\ calls'.image > calls.image =>
           (genPc = "awaitFetch" /\ genPc' = "awaitImages")
      /\ (calls' # calls /\ lastCall' # "handleGenerate") => calls'.fetch = calls.fetch
      /\ (genPc # "idle" /\ genPc' = "idle") =>
           (calls' = calls /\ ~req'.called /\ InFlight(images') = {}) ]_vars

C20_Witness ==
  /\ calls = [fetch |-> 1, image |-> 0]
  /\ reply.kind = "error"
  /\ caught = "got status: 503 Service Unavailable"
  /\ genPc = "idle"
  /\ ~req.called
  /\ lastCall = ""

\* C21: while hasApiKey is false the screen is the credential gate, so no
\* step taken in that state calls handleGenerate or sends a request for
\* recipes.
C21_NoGenerationBehindGate ==
  [][ hasApiKey = ABSENT =>
        /\ GateShown /\ ~PanelShown
        /\ lastCall' # "handleGenerate"
        /\ req'.called => req.called
        /\ calls'.fetch <= calls.fetch ]_vars

C21_Witness ==
  /\ hasApiKey = ABSENT
  /\ caught = "Requested entity was not found"
  /\ Len(ingredients) > 0
  /\ ~isLoading
  /\ lastCall = "handleOpenKeySelection"

\* C22: with backends that settle every call, whenever isLoading is true
\* it becomes false again, by the success path or by the catch of
\* handleGenerate.
C22_LoadingEnds == isLoading ~> ~isLoading

C22_Witness ==
  /\ ~isLoading
  /\ genPc = "idle"
  /\ caught = "URI malformed"
  /\ calls.image > 0

\* C23: the step that sets isLoading to true sets the error to null and
\* recipes to the empty list and is the step that calls fetchRecipes; and
\* while isLoading is true recipes holds nothing but what this request's
\* fetchRecipes returned.
C23_LoadingClearsOutcome ==
  [][ /\ (~isLoading /\ isLoading') =>
           /\ error' = Null
           /\ recipes' = <<>>
           /\ lastCall' = "handleGenerate"
           /\ req'.called
      /\ isLoading' =>
           \/ recipes' = <<>> /\ genPc' = "awaitFetch"
           \/ recipes' = reply'.text.data /\ genPc' = "awaitImages" ]_vars

C23_Witness ==
  /\ isLoading
  /\ genPc = "awaitFetch"
  /\ recipes = <<>>
  /\ error = Null
  /\ caught = Null
  /\ calls.fetch = 1

\* C24: with process.env.API_KEY empty or "undefined", whatever the backend
\* would have answered, fetchRecipes rejects, generateRecipeImage resolves
\* to the placeholder of its title and testConnection resolves to false.
C24_NoCredentialNoBackend ==
  [][ (apiKey = "" \/ apiKey = "undefined") =>
        /\ lastCall' = "fetchRecipes" =>
             (caught' = ErrNoKey /\ suggestedRecipes' = <<>>)
        /\ \A title \in ServiceTitles :
             lastCall' = generateRecipeImageCall(title) =>
               /\ images'[1].st = "ok"
               /\ images'[1].value =
                    "https://picsum.photos/seed/" \o EncodeFrom(title, 1) \o "/600/600"
        /\ lastCall' = "testConnection" => testResult' = "fail" ]_vars

\* C25: the step that ends the startup probe sets hasApiKey only when it is
\* still null; a true set by key selection while the probe was waiting
\* stays true.
C25_ProbeOnlyFromUnknown ==
  [][ (probe # "done" /\ probe' = "done") =>
        /\ hasApiKey # UNKNOWN => hasApiKey' = hasApiKey
        /\ hasApiKey = PRESENT => hasApiKey' # ABSENT ]_vars

\* C26: a request for recipes is started only by a handleGenerate call made
\* while isLoading is false and no run of handleGenerate is under way, with
\* a list that is not empty; isLoading is true exactly while a run is under
\* way, and recipes changes only in a step of that one run.
C26_OneGenerationInFlight ==
  [][ /\ (lastCall' = "handleGenerate" /\ ingredients # <<>>) =>
           (~isLoading /\ genPc = "idle" /\ ~req.called)
      /\ (req'.called /\ req' # req) =>
           (lastCall' = "handleGenerate" /\ ingredients # <<>> /\ ~isLoading)
      /\ isLoading' <=> genPc' # "idle"
      /\ recipes' # recipes =>
           \/ lastCall' = "handleGenerate" /\ genPc = "idle"
           \/ genPc = "awaitFetch" /\ genPc' = "awaitImages"
           \/ ImagesJoinedStep ]_vars

C26_Witness ==
  /\ isLoading
  /\ genPc = "awaitImages"
  /\ PanelShown
  /\ Len(ingredients) > 0
  /\ GenerateDisabled
  /\ calls.image = MaxRecipes

\* C27: isTestingKey is true whenever a connectivity test is in flight,
\* also when a test started by key selection runs alongside one started
\* by hand.
C27_TestingWhileInFlight == tests > 0 => isTestingKey

C29_RequestKeepsInputs ==
  [][ /\ (req'.called /\ ~req.called) =>
           (req'.ingredients = ingredients /\ req'.mealTime = mealTime)
      /\ (lastCall' = "handleGenerate" \/ genPc' # genPc \/ images' # images) =>
           UNCHANGED << ingredients, mealTime >>
      /\ (ingredients' # ingredients \/ mealTime' # mealTime) =>
           UNCHANGED << req, recipes, suggestedRecipes, images, genPc, reply >> ]_vars

C29_Witness ==
  /\ req.called
  /\ genPc = "awaitFetch"
  /\ req.ingredients # ingredients
  /\ req.mealTime = "LUNCH"
  /\ mealTime = "DINNER"

====
